---- MODULE Spec2Model ----
(***************************************************************************)
(* Model of @latanda/auth-middleware: the token codec (src/src/jwt.js),    *)
(* the role table (src/src/rbac.js) and the Express gate stages            *)
(* (src/src/middleware.js).                                                *)
(*                                                                         *)
(* JavaScript objects are records whose DOMAIN is the set of keys that are *)
(* present; a key whose value is undefined is absent.  A possibly          *)
(* undefined scalar is a sequence of length 0 (undefined) or 1.            *)
(***************************************************************************)
EXTENDS Integers, Sequences, FiniteSets, TLC

VARIABLES now, server, token, grant, out, req

vars == <<now, server, token, grant, out, req>>

(***************************************************************************)
(* Bounds                                                                  *)
(***************************************************************************)
\* Date.now()/1000 when the model starts
Epoch == 100
\* the clock advances at most this many seconds
MaxTicks == 2
\* a request passes at most this many gate stages
MaxStages == 2

(***************************************************************************)
(* JavaScript helpers                                                      *)
(***************************************************************************)
EmptyObj == <<>>

\* obj[key] as a possibly undefined value
Get(obj, key) == IF key \in DOMAIN obj THEN <<obj[key]>> ELSE <<>>

\* truthiness of a possibly undefined string
TruthyStr(v) == v # <<>> /\ v[1] # ""

\* a || b on possibly undefined strings
JsOr(a, b) == IF TruthyStr(a) THEN a ELSE b

\* { key: v } as JSON.stringify keeps it: an undefined value drops the key
Field(key, v) == IF v = <<>> THEN EmptyObj ELSE key :> v[1]

\* destructuring default: undefined takes the default, anything else stays
Default(obj, key, dflt) == IF key \in DOMAIN obj THEN obj[key] ELSE dflt

\* a call that returned v, a call that threw an error of the given name
Returns(v) == [threw |-> FALSE, value |-> v]
Throws(name) == [threw |-> TRUE, name |-> name]

(***************************************************************************)
(* The signing library as jwt.js uses it (HS256 only)                      *)
(***************************************************************************)
\* the ms package on the time spans the model uses, in milliseconds
ms(span) ==
  CASE span = "8h" -> 28800000
    [] span = "1s" -> 1000
    [] span = "-1s" -> 0 - 1000

\* timespan(expiresIn, iat): seconds since the epoch
timespan(span, iat) == iat + (ms(span) \div 1000)

JoseHeader == [alg |-> "HS256", typ |-> "JWT"]

\* HMAC-SHA256 as an ideal MAC: equal only for equal key and signing input
HmacSha256(secret, header, payload) ==
  [mac |-> <<secret, header, payload>>]

\* base64url(JSON.stringify(obj)) as a token segment
Segment(obj) == [json |-> obj]

\* the token jwt.sign serializes from the full claim set
SignedToken(claims, secret) ==
  [string |-> TRUE,
   parts |-> <<Segment(JoseHeader), Segment(claims),
               HmacSha256(secret, JoseHeader, claims)>>]

\* jwt.sign(payload, secret, {algorithm:'HS256', expiresIn, issuer, audience})
\* at clock second `clock`
jwt_sign(payload, secret, options, clock) ==
  IF secret = ""
  THEN [threw |-> TRUE, message |-> "secretOrPrivateKey must have a value"]
  ELSE [threw |-> FALSE,
        token |-> SignedToken(payload
                              @@ ("iat" :> clock)
                              @@ ("exp" :> timespan(options.expiresIn, clock))
                              @@ ("aud" :> options.audience)
                              @@ ("iss" :> options.issuer),
                              secret)]

\* token.split('.')
Split(tok) == tok.parts

\* !token || typeof token !== 'string'
NotAToken(tok) == ~tok.string \/ tok.parts = <<[raw |-> ""]>>

\* jwt.decode(token, {complete: true}): null unless three segments whose
\* header and payload are JSON
jwt_decode(tok) ==
  IF /\ tok.string
     /\ Len(tok.parts) = 3
     /\ "json" \in DOMAIN tok.parts[1]
     /\ "json" \in DOMAIN tok.parts[2]
  THEN [null |-> FALSE, header |-> tok.parts[1].json,
        payload |-> tok.parts[2].json, signature |-> tok.parts[3]]
  ELSE [null |-> TRUE]

JwtError(name, message) == [ok |-> FALSE, name |-> name, message |-> message]

\* jwt.verify, second half: the registered claims of a payload whose
\* signature was verified, with clockTimestamp = clock: exp, then audience,
\* then issuer
VerifyClaims_ExpiryStrict(payload, options, clock) ==
  IF "exp" \in DOMAIN payload /\ clock > payload.exp
  THEN JwtError("TokenExpiredError", "jwt expired")
  ELSE IF options.audience # "" /\ Get(payload, "aud") # <<options.audience>>
  THEN JwtError("JsonWebTokenError", "jwt audience invalid")
  ELSE IF options.issuer # "" /\ Get(payload, "iss") # <<options.issuer>>
  THEN JwtError("JsonWebTokenError", "jwt issuer invalid")
  ELSE [ok |-> TRUE, payload |-> payload]

VerifyClaims(payload, options, clock) ==
  IF "exp" \in DOMAIN payload /\ clock >= payload.exp
  THEN JwtError("TokenExpiredError", "jwt expired")
  ELSE IF options.audience # "" /\ Get(payload, "aud") # <<options.audience>>
  THEN JwtError("JsonWebTokenError", "jwt audience invalid")
  ELSE IF options.issuer # "" /\ Get(payload, "iss") # <<options.issuer>>
  THEN JwtError("JsonWebTokenError", "jwt issuer invalid")
  ELSE [ok |-> TRUE, payload |-> payload]

\* jwt.verify, first half, on the decoded token d: key, algorithm and
\* signature
VerifyDecoded(d, secret, options) ==
  IF d.null
  THEN JwtError("JsonWebTokenError", "invalid token")
  ELSE IF d.signature = [raw |-> ""]
  THEN JwtError("JsonWebTokenError", "jwt signature is required")
  ELSE IF secret = ""
  THEN JwtError("JsonWebTokenError", "secret or public key must be provided")
  ELSE IF d.header.alg \notin options.algorithms
  THEN JwtError("JsonWebTokenError", "invalid algorithm")
  ELSE IF d.signature # HmacSha256(secret, d.header, d.payload)
  THEN JwtError("JsonWebTokenError", "invalid signature")
  ELSE [ok |-> TRUE, payload |-> d.payload]

\* jwt.verify, first half: structure, then VerifyDecoded
VerifySignature(tok, secret, options) ==
  IF tok.parts = <<[raw |-> ""]>>
  THEN JwtError("JsonWebTokenError", "jwt must be provided")
  ELSE IF ~tok.string
  THEN JwtError("JsonWebTokenError", "jwt must be a string")
  ELSE IF Len(Split(tok)) # 3
  THEN JwtError("JsonWebTokenError", "jwt malformed")
  ELSE VerifyDecoded(jwt_decode(tok), secret, options)

\* jwt.verify once the first half ended in s: its error, or the second half
ThenClaims(s, options, clock) ==
  IF ~s.ok THEN s ELSE VerifyClaims(s.payload, options, clock)

\* the expiry of the decoded token d looked at before anything else
ExpiryFirst(d, tok, secret, options, clock) ==
  IF ~d.null /\ "exp" \in DOMAIN d.payload /\ clock >= d.payload.exp
  THEN JwtError("TokenExpiredError", "jwt expired")
  ELSE ThenClaims(VerifySignature(tok, secret, options), options, clock)

\* jwt.verify with the expiry looked at before the signature
jwt_verify_ExpiryFirst(tok, secret, options, clock) ==
  ExpiryFirst(jwt_decode(tok), tok, secret, options, clock)

\* the claims of the decoded token d checked, its signature not
DecodeOnly(d, options, clock) ==
  IF d.null
  THEN JwtError("JsonWebTokenError", "invalid token")
  ELSE VerifyClaims(d.payload, options, clock)

\* jwt.decode in the place of jwt.verify: the signature is never compared
jwt_verify_DecodeOnly(tok, secret, options, clock) ==
  DecodeOnly(jwt_decode(tok), options, clock)

\* jwt.verify(token, secret, {algorithms:['HS256'], issuer, audience}) with
\* clockTimestamp = clock
jwt_verify(tok, secret, options, clock) ==
  ThenClaims(VerifySignature(tok, secret, options), options, clock)

(***************************************************************************)
(* src/src/jwt.js                                                          *)
(***************************************************************************)
DefaultExpiresIn == "8h"
DefaultIssuer == "latanda.online"
DefaultAudience == "latanda-web-app"

\* generateToken without the default of the role
generateToken_RoleNotDefaulted(user, secret, options, clock) ==
  LET expiresIn == Default(options, "expiresIn", DefaultExpiresIn)
      issuer == Default(options, "issuer", DefaultIssuer)
      audience == Default(options, "audience", DefaultAudience)
      payload ==
        Field("user_id", JsOr(Get(user, "id"), Get(user, "user_id")))
        @@ Field("email", Get(user, "email"))
        @@ Field("role", Get(user, "role"))
        @@ ("permissions" :> Default(user, "permissions", <<>>))
  IN jwt_sign(payload, secret,
              [expiresIn |-> expiresIn, issuer |-> issuer, audience |-> audience],
              clock)

\* generateToken(user, secret, options) at clock second `clock`
generateToken(user, secret, options, clock) ==
  LET expiresIn == Default(options, "expiresIn", DefaultExpiresIn)
      issuer == Default(options, "issuer", DefaultIssuer)
      audience == Default(options, "audience", DefaultAudience)
      payload ==
        Field("user_id", JsOr(Get(user, "id"), Get(user, "user_id")))
        @@ Field("email", Get(user, "email"))
        @@ Field("role", JsOr(Get(user, "role"), <<"USER">>))
        @@ ("permissions" :> Default(user, "permissions", <<>>))
  IN jwt_sign(payload, secret,
              [expiresIn |-> expiresIn, issuer |-> issuer, audience |-> audience],
              clock)

requiredClaims == <<"user_id", "email", "role", "iss", "aud", "exp", "iat">>

\* a check that takes every claim that is present
FalsyClaim_AbsentOnly(decoded, claim) == claim \notin DOMAIN decoded

\* !decoded[claim]: undefined, '' or 0
FalsyClaim(decoded, claim) ==
  \/ claim \notin DOMAIN decoded
  \/ claim \in {"exp", "iat"} /\ decoded[claim] = 0
  \/ claim \notin {"exp", "iat"} /\ decoded[claim] = ""

\* index of the first required claim that is missing, 0 when none is
FirstMissing(decoded) ==
  LET bad == {i \in 1..Len(requiredClaims) : FalsyClaim(decoded, requiredClaims[i])}
  IN IF bad = {} THEN 0 ELSE CHOOSE i \in bad : \A j \in bad : i <= j

\* validateToken, steps 3 to 5 on the payload jwt.verify returned
CheckDecoded(decoded, issuer, audience, t2) ==
  IF FirstMissing(decoded) # 0
  THEN [valid |-> FALSE,
        error |-> "Missing required claim: " \o requiredClaims[FirstMissing(decoded)]]
  ELSE IF decoded.exp <= t2
  THEN [valid |-> FALSE, error |-> "Token expired"]
  ELSE IF decoded.iss # issuer
  THEN [valid |-> FALSE, error |-> "Invalid issuer"]
  ELSE IF decoded.aud # audience
  THEN [valid |-> FALSE, error |-> "Invalid audience"]
  ELSE [valid |-> TRUE,
        decoded |-> decoded,
        user_id |-> decoded.user_id,
        email |-> decoded.email,
        role |-> decoded.role,
        permissions |-> Default(decoded, "permissions", <<>>)]

\* validateToken without its catch block
AfterVerify_Uncaught(v, issuer, audience, t2) ==
  IF ~v.ok
  THEN Throws(v.name)
  ELSE CheckDecoded(v.payload, issuer, audience, t2)

\* validateToken once jwt.verify ended in v: the catch block, or steps 3 to 5
AfterVerify(v, issuer, audience, t2) ==
  IF ~v.ok
  THEN IF v.name = "TokenExpiredError"
       THEN [valid |-> FALSE, error |-> "Token expired", expired |-> TRUE]
       ELSE IF v.name = "JsonWebTokenError"
       THEN [valid |-> FALSE, error |-> "Invalid token signature"]
       ELSE [valid |-> FALSE, error |-> v.message]
  ELSE CheckDecoded(v.payload, issuer, audience, t2)

\* validateToken(token, secret, options); jwt.verify reads the clock at
\* second t1, the double check of exp reads it at second t2 >= t1
validateToken(tok, secret, options, t1, t2) ==
  IF NotAToken(tok)
  THEN [valid |-> FALSE, error |-> "Invalid token format"]
  ELSE IF Len(Split(tok)) # 3
  THEN [valid |-> FALSE, error |-> "Malformed token structure"]
  ELSE AfterVerify(jwt_verify(tok, secret,
                              [algorithms |-> {"HS256"},
                               issuer |-> Default(options, "issuer", DefaultIssuer),
                               audience |-> Default(options, "audience",
                                                    DefaultAudience)],
                              t1),
                   Default(options, "issuer", DefaultIssuer),
                   Default(options, "audience", DefaultAudience), t2)

\* jwt.decode throws: the header says typ JWT and the payload segment is
\* not JSON, so the JSON.parse of the payload inside the library throws
DecodeThrows(tok) ==
  /\ tok.string
  /\ Len(tok.parts) = 3
  /\ "json" \in DOMAIN tok.parts[1]
  /\ "typ" \in DOMAIN tok.parts[1].json
  /\ tok.parts[1].json.typ = "JWT"
  /\ "json" \notin DOMAIN tok.parts[2]

\* decodeToken without its try/catch
decodeToken_Uncaught(tok) ==
  IF DecodeThrows(tok) THEN Throws("SyntaxError") ELSE jwt_decode(tok)

\* decodeToken(token): what jwt.decode returns, null when it throws
decodeToken(tok) ==
  IF DecodeThrows(tok) THEN [null |-> TRUE] ELSE jwt_decode(tok)

DefaultThresholdMinutes == 15

\* isTokenExpiringSoon that leaves out the threshold itself
ExpiringSoonFrom_Strict(decoded, thresholdMinutes, clock) ==
  IF decoded.null THEN TRUE
  ELSE IF "exp" \notin DOMAIN decoded.payload THEN TRUE
  ELSE IF decoded.payload.exp = 0 THEN TRUE
  ELSE (decoded.payload.exp - clock) < thresholdMinutes * 60

\* isTokenExpiringSoon once decodeToken ended in decoded; the clock reads
\* second `clock`
ExpiringSoonFrom(decoded, thresholdMinutes, clock) ==
  IF decoded.null THEN TRUE
  ELSE IF "exp" \notin DOMAIN decoded.payload THEN TRUE
  ELSE IF decoded.payload.exp = 0 THEN TRUE
  ELSE (decoded.payload.exp - clock) <= thresholdMinutes * 60

\* isTokenExpiringSoon(token, thresholdMinutes = 15); thresholdMinutes is a
\* possibly undefined number
isTokenExpiringSoon(tok, thresholdMinutes, clock) ==
  ExpiringSoonFrom(decodeToken(tok),
                   IF thresholdMinutes = <<>> THEN DefaultThresholdMinutes
                   ELSE thresholdMinutes[1],
                   clock)

\* validation.expired as a condition
IsExpired(validation) == "expired" \in DOMAIN validation /\ validation.expired

\* the refusal that refuses every token that did not validate
CannotRefresh_Invalid(validation) == ~validation.valid

\* !validation.valid && !validation.expired
CannotRefresh(validation) == ~validation.valid /\ ~IsExpired(validation)

\* refreshToken, the result once generateToken ended in signed
RefreshResult(signed, user, options) ==
  IF signed.threw
  THEN [threw |-> TRUE, message |-> signed.message,
        calls |-> <<"validateToken", "generateToken">>]
  ELSE [success |-> TRUE,
        token |-> signed.token,
        user_id |-> Get(user, "id"),
        expires_in |-> Default(options, "expiresIn", "8h"),
        calls |-> <<"validateToken", "generateToken">>]

\* refreshToken, the user object taken from the claims of the old token
UserOf(decoded) ==
  Field("id", Get(decoded, "user_id"))
  @@ Field("email", Get(decoded, "email"))
  @@ Field("role", Get(decoded, "role"))
  @@ Field("permissions", Get(decoded, "permissions"))

\* refreshToken, a new token for the claims of the old one
Reissue(decoded, secret, options, t3) ==
  RefreshResult(generateToken(UserOf(decoded), secret, options, t3),
                UserOf(decoded), options)

\* refreshToken once validateToken ended in validation
AfterValidation(validation, oldToken, secret, options, t3) ==
  IF CannotRefresh(validation)
  THEN [success |-> FALSE, error |-> "Invalid token cannot be refreshed",
        calls |-> <<"validateToken">>]
  ELSE Reissue(IF "decoded" \in DOMAIN validation
               THEN validation.decoded
               ELSE decodeToken(oldToken).payload,
               secret, options, t3)

\* refreshToken(oldToken, secret, options); the clock reads t1 <= t2 inside
\* validateToken, t3 >= t2 inside generateToken.  `calls` lists the codec
\* functions the call went through.
refreshToken(oldToken, secret, options, t1, t2, t3) ==
  AfterValidation(validateToken(oldToken, secret, options, t1, t2),
                  oldToken, secret, options, t3)

(***************************************************************************)
(* src/src/rbac.js                                                         *)
(***************************************************************************)
\* the role table with IT ranked below MIT
ROLES_ItBelowMit ==
  [ADMIN |-> [name |-> "ADMIN", level |-> 100, permissions |-> <<"full_access">>],
   MIT |-> [name |-> "MIT", level |-> 50, permissions |-> <<"create_groups">>],
   IT |-> [name |-> "IT", level |-> 25, permissions |-> <<"api_access">>],
   USER |-> [name |-> "USER", level |-> 10, permissions |-> <<"join_groups">>]]

ROLES ==
  [ADMIN |-> [name |-> "ADMIN", level |-> 100,
              permissions |-> <<"full_access", "user_management", "system_config",
                                "approve_deposits", "manage_groups", "view_analytics",
                                "manage_roles", "delete_users", "system_settings">>],
   MIT |-> [name |-> "MIT", level |-> 50,
            permissions |-> <<"create_groups", "manage_own_groups", "approve_members",
                              "view_group_analytics", "edit_group_settings">>],
   IT |-> [name |-> "IT", level |-> 75,
           permissions |-> <<"view_system_logs", "debug_access", "api_access",
                             "view_analytics", "technical_support">>],
   USER |-> [name |-> "USER", level |-> 10,
             permissions |-> <<"view_own_profile", "edit_own_profile", "join_groups",
                               "make_payments", "view_own_transactions">>]]

\* keys every object literal inherits from Object.prototype (a sample)
ObjectPrototype == {"constructor", "__proto__", "toString"}

\* ROLES[name] as a possibly undefined value: the table entry, the
\* inherited member for a key of Object.prototype, undefined otherwise
RolesAt(name) ==
  IF name \in DOMAIN ROLES THEN <<ROLES[name]>>
  ELSE IF name \in ObjectPrototype THEN <<[inherited |-> name]>>
  ELSE <<>>

\* array.includes(x)
Includes(array, x) == \E i \in 1..Len(array) : array[i] = x

\* hasPermission without the ADMIN bypass
hasPermission_NoAdminBypass(userRole, requiredPermission) ==
  IF RolesAt(userRole) = <<>> THEN Returns(FALSE)
  ELSE IF "permissions" \notin DOMAIN RolesAt(userRole)[1] THEN Throws("TypeError")
  ELSE Returns(Includes(RolesAt(userRole)[1].permissions, requiredPermission))

\* hasPermission(userRole, requiredPermission); role.permissions.includes
\* throws a TypeError when role.permissions is undefined
hasPermission(userRole, requiredPermission) ==
  IF RolesAt(userRole) = <<>> THEN Returns(FALSE)
  ELSE IF userRole = "ADMIN" THEN Returns(TRUE)
  ELSE IF "permissions" \notin DOMAIN RolesAt(userRole)[1] THEN Throws("TypeError")
  ELSE Returns(Includes(RolesAt(userRole)[1].permissions, requiredPermission))

\* the first call of a sequence of calls that threw or returned stop, 0
\* when there is none
FirstStop(calls, stop) ==
  IF \E i \in 1..Len(calls) : calls[i].threw \/ calls[i].value = stop
  THEN CHOOSE i \in 1..Len(calls) :
         /\ calls[i].threw \/ calls[i].value = stop
         /\ \A j \in 1..(i - 1) : ~calls[j].threw /\ calls[j].value # stop
  ELSE 0

\* array.some / array.every over the outcomes of the callback: the walk
\* ends at the first call that throws or returns stop
Walk(calls, stop) ==
  IF FirstStop(calls, stop) = 0 THEN Returns(~stop)
  ELSE IF calls[FirstStop(calls, stop)].threw THEN calls[FirstStop(calls, stop)]
  ELSE Returns(stop)

\* permissions.some(permission => hasPermission(userRole, permission))
hasAnyPermission(userRole, permissions) ==
  Walk([i \in 1..Len(permissions) |-> hasPermission(userRole, permissions[i])],
       TRUE)

\* permissions.every(permission => hasPermission(userRole, permission))
hasAllPermissions(userRole, permissions) ==
  Walk([i \in 1..Len(permissions) |-> hasPermission(userRole, permissions[i])],
       FALSE)

\* a > b on possibly undefined numbers
Gte_Strict(a, b) == a # <<>> /\ b # <<>> /\ a[1] > b[1]

\* a >= b on possibly undefined numbers: undefined converts to NaN, and
\* every comparison with NaN is false
Gte(a, b) == a # <<>> /\ b # <<>> /\ a[1] >= b[1]

\* hasRoleLevel that compares the levels the other way round
hasRoleLevel_Reversed(userRole, requiredRole) ==
  IF RolesAt(userRole) = <<>> \/ RolesAt(requiredRole) = <<>> THEN FALSE
  ELSE Gte(Get(RolesAt(requiredRole)[1], "level"), Get(RolesAt(userRole)[1], "level"))

\* hasRoleLevel(userRole, requiredRole)
hasRoleLevel(userRole, requiredRole) ==
  IF RolesAt(userRole) = <<>> \/ RolesAt(requiredRole) = <<>> THEN FALSE
  ELSE Gte(Get(RolesAt(userRole)[1], "level"), Get(RolesAt(requiredRole)[1], "level"))

\* Object.keys(ROLES)
ObjectKeys(obj) == DOMAIN obj

\* isValidRole(role)
isValidRole(role) == role \in ObjectKeys(ROLES)

\* canAccessResource without the ADMIN bypass
canAccessResource_NoAdminBypass(userId, resourceOwnerId, userRole) ==
  userId = resourceOwnerId

\* canAccessResource(userId, resourceOwnerId, userRole)
canAccessResource(userId, resourceOwnerId, userRole) ==
  IF userRole = "ADMIN" THEN TRUE
  ELSE userId = resourceOwnerId

mitActions == <<"edit", "delete", "approve_members", "manage_settings">>

\* canPerformGroupAction that lets every MIT manage every group
canPerformGroupAction_AnyMit(userId, group, userRole, action) ==
  IF userRole = "ADMIN" THEN TRUE
  ELSE IF userRole = "MIT"
  THEN Includes(mitActions, action)
  ELSE action = "view"

\* canPerformGroupAction(userId, group, userRole, action); userId is a
\* possibly undefined value
canPerformGroupAction(userId, group, userRole, action) ==
  IF userRole = "ADMIN" THEN TRUE
  ELSE IF userRole = "MIT" /\ Get(group, "creator_id") = userId
  THEN Includes(mitActions, action)
  ELSE action = "view"

(***************************************************************************)
(* src/src/middleware.js                                                   *)
(***************************************************************************)
\* JavaScript values of req.user before an identity is attached
Undefined == [js |-> "undefined"]
Null == [js |-> "null"]

\* !req.user
NoUser(r) == r.user \in {Undefined, Null}

\* a stage starts on request r: nothing sent and next not called by it yet
Enter(r, stage, args) ==
  [r EXCEPT !.stage = stage, !.args = args, !.nexts = 0, !.sent = 0,
            !.hops = @ + 1, !.before = r.user, !.calls = 0]

\* res.status(status).json(body)
Send(r, status, body) ==
  [r EXCEPT !.res = <<[status |-> status, body |-> body]>>, !.sent = @ + 1]

\* next(): the callback returns, or lets through what the handler behind it
\* throws synchronously
Proceed(r) ==
  IF r.next = "throws"
  THEN [r EXCEPT !.nexts = @ + 1, !.error = <<"Error">>]
  ELSE [r EXCEPT !.nexts = @ + 1]

\* onUnauthorized(req, res, error): the response is the handler's business
CallHandler(r, error) == [r EXCEPT !.handled = <<error>>]

\* an error thrown out of the stage: nothing sent, next not called
Raise(r, name) == [r EXCEPT !.error = <<name>>]

\* authHeader.startsWith('Bearer ') on a present, non-empty header
HasBearer(authHeader) == authHeader # <<>> /\ authHeader[1].prefix = "Bearer "

\* createAuthMiddleware that drops the configured issuer
createAuthMiddleware_IssuerDropped(config) ==
  IF ~TruthyStr(Get(config, "jwtSecret"))
  THEN [threw |-> TRUE,
        message |-> "@latanda/auth-middleware: jwtSecret is required"]
  ELSE [threw |-> FALSE,
        jwtSecret |-> config.jwtSecret,
        issuer |-> DefaultIssuer,
        audience |-> Default(config, "audience", DefaultAudience),
        onUnauthorized |-> "onUnauthorized" \in DOMAIN config]

\* createAuthMiddleware(config): throws, or the closure of authMiddleware
createAuthMiddleware(config) ==
  IF ~TruthyStr(Get(config, "jwtSecret"))
  THEN [threw |-> TRUE,
        message |-> "@latanda/auth-middleware: jwtSecret is required"]
  ELSE [threw |-> FALSE,
        jwtSecret |-> config.jwtSecret,
        issuer |-> Default(config, "issuer", DefaultIssuer),
        audience |-> Default(config, "audience", DefaultAudience),
        onUnauthorized |-> "onUnauthorized" \in DOMAIN config]

\* authMiddleware once validateToken ended in validation on request r
AuthOutcome(validation, mw, r, tok) ==
  IF ~validation.valid
  THEN IF mw.onUnauthorized
       THEN CallHandler(r, [message |-> validation.error, code |-> "INVALID_TOKEN"])
       ELSE Send(r, 401, [success |-> FALSE, error |-> validation.error,
                          code |-> "INVALID_TOKEN",
                          expired |-> IsExpired(validation)])
  ELSE Proceed([r EXCEPT !.user = [id |-> validation.user_id,
                                   email |-> validation.email,
                                   role |-> validation.role,
                                   permissions |-> validation.permissions],
                         !.token = <<tok>>])

\* authMiddleware from the Authorization header on, on request r
AuthFromHeader(authHeader, mw, r, t1, t2) ==
  IF ~HasBearer(authHeader)
  THEN IF mw.onUnauthorized
       THEN CallHandler(r, [message |-> "Missing or invalid Authorization header",
                            code |-> "NO_TOKEN"])
       ELSE Send(r, 401, [success |-> FALSE, error |-> "Authentication required",
                          code |-> "NO_TOKEN"])
  ELSE AuthOutcome(validateToken(authHeader[1].rest, mw.jwtSecret,
                                 [issuer |-> mw.issuer, audience |-> mw.audience],
                                 t1, t2),
                   mw, r, authHeader[1].rest)

\* authMiddleware(req, res, next) of the closure mw; validateToken reads
\* the clock at t1 and t2
authMiddleware(mw, r0, t1, t2) ==
  AuthFromHeader(Get(r0.headers, "authorization"), mw,
                 Enter(r0, "auth", [t1 |-> t1, t2 |-> t2]), t1, t2)

\* requirePermission(requiredPermissions, options): the closure of
\* permissionMiddleware
requirePermission(requiredPermissions, options) ==
  [requireAll |-> Default(options, "requireAll", FALSE),
   permissions |-> IF "array" \in DOMAIN requiredPermissions
                   THEN requiredPermissions.array
                   ELSE <<requiredPermissions.value>>]

\* permissionMiddleware once every/some ended in hasAccess on request r
PermissionOutcome(hasAccess, mw, r) ==
  IF hasAccess.threw
  THEN Raise(r, hasAccess.name)
  ELSE IF ~hasAccess.value
  THEN Send(r, 403, [success |-> FALSE, error |-> "Insufficient permissions",
                     code |-> "FORBIDDEN", required |-> mw.permissions,
                     userRole |-> r.user.role])
  ELSE Proceed(r)

\* permissionMiddleware that also accepts a permission listed in req.user
PermissionFrom_TokenPermissions(mw, r) ==
  IF NoUser(r)
  THEN Send(r, 401, [success |-> FALSE,
                     error |-> "Authentication required before permission check",
                     code |-> "NO_AUTH"])
  ELSE PermissionOutcome(
         Walk([i \in 1..Len(mw.permissions) |->
                 IF Includes(r.user.permissions, mw.permissions[i])
                 THEN Returns(TRUE)
                 ELSE hasPermission(r.user.role, mw.permissions[i])],
              ~mw.requireAll),
         mw, r)

\* permissionMiddleware from the entry of request r on
PermissionFrom(mw, r) ==
  IF NoUser(r)
  THEN Send(r, 401, [success |-> FALSE,
                     error |-> "Authentication required before permission check",
                     code |-> "NO_AUTH"])
  ELSE PermissionOutcome(
         Walk([i \in 1..Len(mw.permissions) |->
                 hasPermission(r.user.role, mw.permissions[i])],
              ~mw.requireAll),
         mw, r)

\* permissionMiddleware(req, res, next) of the closure mw
permissionMiddleware(mw, r0) == PermissionFrom(mw, Enter(r0, "permission", mw))

\* requireRole without the check of the role name
requireRole_Unchecked(minimumRole) ==
  [threw |-> FALSE, minimumRole |-> minimumRole]

\* requireRole(minimumRole): throws, or the closure of roleMiddleware
requireRole(minimumRole) ==
  IF ~isValidRole(minimumRole)
  THEN [threw |-> TRUE,
        message |-> "Invalid role: " \o minimumRole
                    \o ". Must be ADMIN, MIT, IT, or USER"]
  ELSE [threw |-> FALSE, minimumRole |-> minimumRole]

\* roleMiddleware from the entry of request r on
RoleFrom(mw, r) ==
  IF NoUser(r)
  THEN Send(r, 401, [success |-> FALSE,
                     error |-> "Authentication required before role check",
                     code |-> "NO_AUTH"])
  ELSE IF ~hasRoleLevel(r.user.role, mw.minimumRole)
  THEN Send(r, 403, [success |-> FALSE,
                     error |-> "Requires " \o mw.minimumRole \o " role or higher",
                     code |-> "INSUFFICIENT_ROLE", required |-> mw.minimumRole,
                     current |-> r.user.role])
  ELSE Proceed(r)

\* roleMiddleware(req, res, next) of the closure mw
roleMiddleware(mw, r0) == RoleFrom(mw, Enter(r0, "role", mw))

\* requireOwnership(getResourceOwnerId): the closure of ownershipMiddleware.
\* The accessor is a value used as it is (function = FALSE), or a function
\* whose call throws, returns `value`, or returns a promise that is
\* fulfilled with `value` or rejected.
requireOwnership(getResourceOwnerId) ==
  [getResourceOwnerId |-> getResourceOwnerId]

\* ownershipMiddleware, the comparison with the owner id and what follows
CompareOwner(r, resourceOwnerId) ==
  IF Get(r.user, "id") # resourceOwnerId
  THEN Send(r, 403, [success |-> FALSE,
                     error |-> "You can only access your own resources",
                     code |-> "NOT_OWNER"])
  ELSE Proceed(r)

\* ownershipMiddleware, the catch block
OwnershipCheckFailed(r) ==
  Send(r, 500, [success |-> FALSE,
                error |-> "Failed to verify resource ownership",
                code |-> "OWNERSHIP_CHECK_FAILED"])

\* ownershipMiddleware, the try around the comparison: whatever was thrown
\* inside it, by next() too, ends in the catch block
Catch(r) ==
  IF r.error # <<>>
  THEN OwnershipCheckFailed([r EXCEPT !.error = <<>>])
  ELSE r

\* ownershipMiddleware that compares with what the accessor returned,
\* without awaiting it
ResolveOwner_NotAwaited(accessor, r) ==
  IF ~accessor.function
  THEN Catch(CompareOwner(r, accessor.value))
  ELSE IF accessor.outcome = "throws"
  THEN OwnershipCheckFailed([r EXCEPT !.calls = @ + 1])
  ELSE Catch(CompareOwner([r EXCEPT !.calls = @ + 1], accessor.value))

\* ownershipMiddleware, the try block up to the comparison or the await
ResolveOwner(accessor, r) ==
  IF ~accessor.function
  THEN Catch(CompareOwner(r, accessor.value))
  ELSE IF accessor.outcome = "throws"
  THEN OwnershipCheckFailed([r EXCEPT !.calls = @ + 1])
  ELSE [r EXCEPT !.calls = @ + 1, !.pending = <<accessor>>]

\* ownershipMiddleware that compares the owner id for ADMIN too
OwnershipFrom_NoAdminBypass(mw, r) ==
  IF NoUser(r)
  THEN Send(r, 401, [success |-> FALSE, error |-> "Authentication required",
                     code |-> "NO_AUTH"])
  ELSE ResolveOwner(mw.getResourceOwnerId, r)

\* ownershipMiddleware from the entry of request r on, up to its await
OwnershipFrom(mw, r) ==
  IF NoUser(r)
  THEN Send(r, 401, [success |-> FALSE, error |-> "Authentication required",
                     code |-> "NO_AUTH"])
  ELSE IF r.user.role = "ADMIN"
  THEN Proceed(r)
  ELSE ResolveOwner(mw.getResourceOwnerId, r)

\* ownershipMiddleware(req, res, next) of the closure mw, up to its await
ownershipMiddleware(mw, r0) == OwnershipFrom(mw, Enter(r0, "ownership", mw))

\* ownershipMiddleware that, resumed, compares with the identity of the
\* latest request in flight that has one, as if it were kept in one slot
ownershipResumed_SharedIdentity(accessor, r) ==
  IF accessor.outcome = "rejects"
  THEN OwnershipCheckFailed([r EXCEPT !.pending = <<>>])
  ELSE Catch(CompareOwner(
               [r EXCEPT !.pending = <<>>,
                         !.user = LET having == {j \in DOMAIN req :
                                                  ~NoUser(req[j])}
                                  IN req[CHOOSE j \in having :
                                           \A k \in having : k <= j].user],
               accessor.value))

\* ownershipMiddleware resumed on request r when the awaited value settled
ownershipResumed(accessor, r) ==
  IF accessor.outcome = "rejects"
  THEN OwnershipCheckFailed([r EXCEPT !.pending = <<>>])
  ELSE Catch(CompareOwner([r EXCEPT !.pending = <<>>], accessor.value))

\* optionalAuth(config): throws, or the closure of optionalAuthMiddleware
optionalAuth(config) ==
  IF ~TruthyStr(Get(config, "jwtSecret"))
  THEN [threw |-> TRUE,
        message |-> "@latanda/auth-middleware: jwtSecret is required"]
  ELSE [threw |-> FALSE,
        jwtSecret |-> config.jwtSecret,
        issuer |-> Default(config, "issuer", DefaultIssuer),
        audience |-> Default(config, "audience", DefaultAudience)]

\* optionalAuthMiddleware once validateToken ended in validation on request
\* r; `otherwise` is the request as the stage leaves it when the token fails
OptionalOutcome(validation, r, tok, otherwise) ==
  IF validation.valid
  THEN Proceed([r EXCEPT !.user = [id |-> validation.user_id,
                                   email |-> validation.email,
                                   role |-> validation.role,
                                   permissions |-> validation.permissions],
                         !.token = <<tok>>])
  ELSE Proceed(otherwise)

\* optionalAuthMiddleware from the Authorization header on, on request r
OptionalFromHeader(authHeader, mw, r, t1, t2, otherwise) ==
  IF ~HasBearer(authHeader)
  THEN Proceed([r EXCEPT !.user = Null])
  ELSE OptionalOutcome(validateToken(authHeader[1].rest, mw.jwtSecret,
                                     [issuer |-> mw.issuer,
                                      audience |-> mw.audience],
                                     t1, t2),
                       r, authHeader[1].rest, otherwise)

\* the request as optionalAuthMiddleware finds it on entry
Entered(r0, t1, t2) == Enter(r0, "optional", [t1 |-> t1, t2 |-> t2])

\* optionalAuthMiddleware that leaves req.user alone when the token fails
optionalAuthMiddleware_UserLeft(mw, r0, t1, t2) ==
  OptionalFromHeader(Get(r0.headers, "authorization"), mw,
                     Entered(r0, t1, t2), t1, t2, Entered(r0, t1, t2))

\* optionalAuthMiddleware(req, res, next) of the closure mw
optionalAuthMiddleware(mw, r0, t1, t2) ==
  OptionalFromHeader(Get(r0.headers, "authorization"), mw,
                     Entered(r0, t1, t2), t1, t2,
                     [Entered(r0, t1, t2) EXCEPT !.user = Null])

(***************************************************************************)
(* Inputs                                                                  *)
(***************************************************************************)
\* user objects as callers pass them to generateToken
Users ==
  { [id |-> "u1", email |-> "a@b.com", role |-> "USER",
     permissions |-> <<"user_management">>],
    [user_id |-> "u2", email |-> "c@d.com", role |-> ""],
    [id |-> "u3", email |-> "m@b.com", role |-> "MIT", permissions |-> <<>>],
    [id |-> "u4", email |-> "i@b.com", role |-> "IT"],
    [id |-> "admin_001", email |-> "admin@b.com", role |-> "ADMIN",
     permissions |-> <<>>],
    [id |-> "u5", email |-> "g@b.com", role |-> "GUEST"],
    [id |-> "u6", role |-> "USER"] }

\* a user whose role is the name of a member every object inherits
InheritedRoleUsers ==
  { [id |-> "u7", email |-> "p@b.com", role |-> "constructor"] }

\* non-empty signing keys
Keys == {"k1", "k2"}

\* options objects as callers pass them
Options ==
  { EmptyObj,
    [expiresIn |-> "1s"],
    [expiresIn |-> "-1s"],
    [issuer |-> "evil.example"],
    [audience |-> "other-app"],
    [issuer |-> ""] }

\* the deployment that validates and refreshes: its key and its options
Servers ==
  [secret : {"k1"}, options : Options, custom : {FALSE}]
  \cup [secret : {""}, options : {EmptyObj}, custom : {FALSE}]

\* deployments that run the gate stages; custom: an onUnauthorized handler
\* is configured
GateServers ==
  [secret : {"k1"}, options : {EmptyObj, [issuer |-> "evil.example"]},
   custom : BOOLEAN]
  \cup [secret : {""}, options : {EmptyObj}, custom : {FALSE}]

\* the config object a deployment passes to createAuthMiddleware and
\* optionalAuth
ConfigOf(srv) ==
  ("jwtSecret" :> srv.secret)
  @@ Field("issuer", Get(srv.options, "issuer"))
  @@ Field("audience", Get(srv.options, "audience"))
  @@ (IF srv.custom THEN "onUnauthorized" :> "function" ELSE EmptyObj)

\* what a client holds before any token was issued to it
NoToken == [string |-> FALSE, parts |-> <<>>]

\* token strings no signer produced
MalformedTokens ==
  { [string |-> TRUE, parts |-> <<[raw |-> ""]>>],
    [string |-> TRUE, parts |-> <<[raw |-> "garbage"]>>],
    [string |-> TRUE,
     parts |-> <<[raw |-> "invalid"], [raw |-> "token"], [raw |-> "here"]>>] }

\* a signed token whose payload was edited afterwards, signature kept
Tampered(tok) ==
  [tok EXCEPT !.parts[2] = Segment([tok.parts[2].json EXCEPT !.role = "ADMIN"])]

IsSigned(tok) == ~jwt_decode(tok).null /\ "mac" \in DOMAIN tok.parts[3]

\* tokens a client may hold when it sends a request: issued at Epoch under
\* the first key for every user, under the second key for one user
GateTokens ==
  { generateToken(u, "k1", o, Epoch).token :
      u \in Users \cup InheritedRoleUsers, o \in {EmptyObj, [expiresIn |-> "1s"], [expiresIn |-> "-1s"]} }
  \cup { generateToken(CHOOSE u \in Users : u.role = "ADMIN", "k2", EmptyObj,
                       Epoch).token }
  \cup MalformedTokens \cup {NoToken}

\* the request headers a client holding tok may send
HeadersFor(tok) ==
  {EmptyObj}
  \cup (IF tok.string
        THEN {[authorization |-> [prefix |-> pre, rest |-> tok]] :
                pre \in {"Bearer ", "Basic "}}
        ELSE {})

\* arguments of requirePermission: one name, or an array of names
RequiredPermissions ==
  { [value |-> "user_management"],
    [array |-> <<"view_own_profile", "system_config">>],
    [array |-> <<"view_own_profile", "edit_own_profile">>],
    [array |-> <<>>] }

\* arguments of requireRole
MinimumRoles == {"ADMIN", "MIT", "IT", "USER", "INVALID_ROLE", "constructor"}

\* arguments of requireOwnership
Accessors ==
  { [function |-> FALSE, outcome |-> "value", value |-> <<"u1">>],
    [function |-> TRUE, outcome |-> "returns", value |-> <<"u2">>],
    [function |-> TRUE, outcome |-> "returns", value |-> <<>>],
    [function |-> TRUE, outcome |-> "throws", value |-> <<>>],
    [function |-> TRUE, outcome |-> "resolves", value |-> <<"u1">>],
    [function |-> TRUE, outcome |-> "rejects", value |-> <<>>] }

Idle == [op |-> "none"]
NoGrant == [by |-> "none"]
NoReq == [stage |-> "none"]

LastTick == Epoch + MaxTicks

(***************************************************************************)
(* State machine                                                           *)
(***************************************************************************)
Init ==
  /\ now = Epoch
  /\ server \in Servers
  /\ token = NoToken
  /\ grant = NoGrant
  /\ out = Idle
  /\ req = NoReq

\* the clock advances by one second
Tick ==
  /\ now < LastTick
  /\ now' = now + 1
  /\ UNCHANGED <<server, token, grant, out, req>>

\* some party issues a token and hands it to the client
GenerateToken ==
  /\ token = NoToken
  /\ out = Idle
  /\ \E user \in Users, secret \in Keys \cup {""}, options \in Options :
     \E r \in {generateToken(user, secret, options, now)} :
       /\ out' = [op |-> "generateToken", result |-> r]
       /\ token' = IF r.threw THEN token ELSE r.token
       /\ grant' = [by |-> "generateToken", user |-> user, secret |-> secret,
                    options |-> options, at |-> now]
  /\ UNCHANGED <<now, server, req>>

\* the client presents a string no signer produced
PresentMalformed ==
  /\ token = NoToken
  /\ out = Idle
  /\ token' \in MalformedTokens
  /\ UNCHANGED <<now, server, grant, out, req>>

\* the client edits the payload of the token it holds
Tamper ==
  /\ IsSigned(token)
  /\ "role" \in DOMAIN token.parts[2].json
  /\ token' = Tampered(token)
  /\ token' # token
  /\ grant' = NoGrant
  /\ out' = Idle
  /\ UNCHANGED <<now, server, req>>

\* the deployment validates the token the client holds
ValidateToken ==
  \E d \in 0..1 :
    /\ now + d <= LastTick
    /\ out' = [op |-> "validateToken", token |-> token,
               t1 |-> now, t2 |-> now + d,
               result |-> validateToken(token, server.secret, server.options,
                                        now, now + d)]
    /\ now' = now + d
    /\ UNCHANGED <<server, token, grant, req>>

\* the deployment refreshes the token the client holds; the client keeps
\* the replacement when there is one
RefreshToken ==
  \E d1 \in 0..1, d2 \in 0..1 :
  \E r \in {refreshToken(token, server.secret, server.options,
                          now, now + d1, now + d1 + d2)} :
    /\ now + d1 + d2 <= LastTick
    /\ out' = [op |-> "refreshToken", token |-> token,
               t1 |-> now, t2 |-> now + d1, t3 |-> now + d1 + d2, result |-> r]
    /\ token' = IF "token" \in DOMAIN r THEN r.token ELSE token
    /\ grant' = IF "token" \in DOMAIN r
                THEN [by |-> "refreshToken", old |-> token] ELSE grant
    /\ now' = now + d1 + d2
    /\ UNCHANGED <<server, req>>

(***************************************************************************)
(* Requests through the gate stages                                        *)
(***************************************************************************)
GateInit ==
  /\ now = Epoch
  /\ server \in GateServers
  /\ token \in GateTokens
  /\ grant = NoGrant
  /\ out = Idle
  /\ req = NoReq

\* the setup code calls a stage constructor that throws; the error is
\* left to propagate, so the deployment never serves a request
ConstructionThrows ==
  /\ req = NoReq
  /\ out = Idle
  /\ \E c \in {[op |-> "createAuthMiddleware", arg |-> ConfigOf(server),
                 result |-> createAuthMiddleware(ConfigOf(server))],
                [op |-> "optionalAuth", arg |-> ConfigOf(server),
                 result |-> optionalAuth(ConfigOf(server))]}
               \cup {[op |-> "requireRole", arg |-> m, result |-> requireRole(m)] :
                       m \in MinimumRoles} :
       /\ c.result.threw
       /\ out' = c
  /\ UNCHANGED <<now, server, token, grant, req>>

\* the `next` callbacks a framework hands to a stage: one that returns, and
\* one that lets the error of the handler behind it propagate to its caller
NextCallbacks == {"returns", "throws"}

\* the framework calls a stage on request r with the callback nx
With(r, nx) == [r EXCEPT !.next = nx]

\* a request with headers h as the framework hands it to the first stage
Incoming(h) ==
  [headers |-> h, user |-> Undefined, token |-> <<>>, res |-> <<>>,
   handled |-> <<>>, stage |-> "new", args |-> EmptyObj,
   nexts |-> 0, sent |-> 0, hops |-> 0, before |-> Undefined,
   error |-> <<>>, pending |-> <<>>, calls |-> 0, next |-> "none"]

\* the client sends a request
NewRequest ==
  /\ req = NoReq
  /\ out = Idle
  /\ \E h \in HeadersFor(token) : req' = Incoming(h)
  /\ UNCHANGED <<now, server, token, grant, out>>

\* the request reached no terminal response and its last stage called next
Live(r) ==
  /\ r.stage # "none"
  /\ r.res = <<>>
  /\ r.handled = <<>>
  /\ r.error = <<>>
  /\ r.hops < MaxStages
  /\ r.hops = 0 \/ r.nexts = 1

\* the request passes createAuthMiddleware(config)
AuthStage ==
  /\ Live(req)
  /\ \E d \in 0..1, nx \in NextCallbacks :
     \E mw \in {createAuthMiddleware(ConfigOf(server))} :
       /\ ~mw.threw
       /\ now + d <= LastTick
       /\ req' = authMiddleware(mw, With(req, nx), now, now + d)
       /\ now' = now + d
  /\ UNCHANGED <<server, token, grant, out>>

\* the request passes optionalAuth(config)
OptionalAuthStage ==
  /\ Live(req)
  /\ \E d \in 0..1, nx \in NextCallbacks :
     \E mw \in {optionalAuth(ConfigOf(server))} :
       /\ ~mw.threw
       /\ now + d <= LastTick
       /\ req' = optionalAuthMiddleware(mw, With(req, nx), now, now + d)
       /\ now' = now + d
  /\ UNCHANGED <<server, token, grant, out>>

\* the request passes requirePermission(requiredPermissions, options)
PermissionStage ==
  /\ Live(req)
  /\ \E rp \in RequiredPermissions, o \in {EmptyObj, [requireAll |-> TRUE]},
        nx \in NextCallbacks :
       req' = permissionMiddleware(requirePermission(rp, o), With(req, nx))
  /\ UNCHANGED <<now, server, token, grant, out>>

\* the request passes requireRole(minimumRole)
RoleStage ==
  /\ Live(req)
  /\ \E m \in MinimumRoles, nx \in NextCallbacks :
     \E mw \in {requireRole(m)} :
       /\ ~mw.threw
       /\ req' = roleMiddleware(mw, With(req, nx))
  /\ UNCHANGED <<now, server, token, grant, out>>

\* the request passes requireOwnership(getResourceOwnerId), up to its await
OwnershipStage ==
  /\ Live(req)
  /\ \E a \in Accessors, nx \in NextCallbacks :
       req' = ownershipMiddleware(requireOwnership(a), With(req, nx))
  /\ UNCHANGED <<now, server, token, grant, out>>

\* the value ownershipMiddleware awaits settles and the stage resumes
OwnershipSettles ==
  /\ req # NoReq
  /\ req.pending # <<>>
  /\ req' = ownershipResumed(req.pending[1], req)
  /\ UNCHANGED <<now, server, token, grant, out>>

GateNext ==
  \/ ConstructionThrows
  \/ NewRequest
  \/ AuthStage
  \/ OptionalAuthStage
  \/ PermissionStage
  \/ RoleStage
  \/ OwnershipStage
  \/ OwnershipSettles

(***************************************************************************)
(* Requests in flight at the same time on one route                        *)
(***************************************************************************)
\* the requests in flight
InFlight == {1, 2}

\* app.get(path, authMiddleware, requirePermission(..), requireOwnership(..))
Route == <<"auth", "permission", "ownership">>

\* tokens the clients of the concurrent requests hold
ConcurrentTokens ==
  { generateToken(u, "k1", EmptyObj, Epoch).token :
      u \in {v \in Users : v.role \in {"USER", "MIT", "ADMIN"} /\ "email" \in DOMAIN v} }
  \cup {NoToken}

\* the headers of the request a client holding tok sends
BearerOf(tok) ==
  IF tok.string
  THEN [authorization |-> [prefix |-> "Bearer ", rest |-> tok]]
  ELSE EmptyObj

\* the framework calls the stage described by e on request r
StageCall(e, r) ==
  IF e.stage = "auth"
  THEN authMiddleware(createAuthMiddleware(ConfigOf(server)), With(r, e.next),
                      e.at, e.at)
  ELSE IF e.stage = "permission"
  THEN permissionMiddleware(e.mw, With(r, e.next))
  ELSE IF e.stage = "ownership"
  THEN ownershipMiddleware(e.mw, With(r, e.next))
  ELSE ownershipResumed(r.pending[1], r)

\* request i is served one step; grant keeps what each request was called
\* with, in order
Serve(i, e) ==
  /\ req' = [req EXCEPT ![i] = StageCall(e, @)]
  /\ grant' = [grant EXCEPT ![i] = Append(@, e)]
  /\ UNCHANGED <<now, server, token, out>>

\* request r waits for the stage at position `stage` of the route
Awaits(r, stage) ==
  /\ r.res = <<>>
  /\ r.handled = <<>>
  /\ r.error = <<>>
  /\ r.pending = <<>>
  /\ r.hops = 0 \/ r.nexts = 1
  /\ r.hops < Len(Route)
  /\ Route[r.hops + 1] = stage

ConcurrentInit ==
  /\ now = Epoch
  /\ server \in {srv \in GateServers : srv.secret # "" /\ ~srv.custom}
  /\ token \in [InFlight -> ConcurrentTokens]
  /\ grant = [i \in InFlight |-> <<>>]
  /\ out = Idle
  /\ req = [i \in InFlight |-> Incoming(BearerOf(token[i]))]

\* one of the requests passes the authentication stage
ServeAuth ==
  \E i \in InFlight, nx \in NextCallbacks :
    /\ Awaits(req[i], "auth")
    /\ Serve(i, [stage |-> "auth", at |-> now, next |-> nx])

\* one of the requests passes the permission stage
ServePermission ==
  \E i \in InFlight, nx \in NextCallbacks,
     rp \in {[value |-> "user_management"],
             [array |-> <<"view_own_profile", "create_groups">>]} :
    /\ Awaits(req[i], "permission")
    /\ Serve(i, [stage |-> "permission", next |-> nx,
                 mw |-> requirePermission(rp, EmptyObj)])

\* one of the requests passes the ownership stage, up to its await
ServeOwnership ==
  \E i \in InFlight, nx \in NextCallbacks,
     a \in {b \in Accessors : b.outcome \in {"resolves", "rejects", "value"}} :
    /\ Awaits(req[i], "ownership")
    /\ Serve(i, [stage |-> "ownership", next |-> nx,
                 mw |-> requireOwnership(a)])

\* the value one suspended request awaits settles and its stage resumes
ServeSettles ==
  \E i \in InFlight :
    /\ req[i].pending # <<>>
    /\ Serve(i, [stage |-> "settle"])

ConcurrentNext ==
  \/ ServeAuth
  \/ ServePermission
  \/ ServeOwnership
  \/ ServeSettles

ConcurrentSpec == ConcurrentInit /\ [][ConcurrentNext]_vars

Next ==
  \/ Tick
  \/ GenerateToken
  \/ PresentMalformed
  \/ Tamper
  \/ ValidateToken
  \/ RefreshToken

Spec == Init /\ [][Next]_vars

GateSpec == GateInit /\ [][GateNext]_vars

(***************************************************************************)
(* Calls of the role table queries                                         *)
(***************************************************************************)
\* role names callers pass: the table's, unknown ones, inherited members
RoleNames == DOMAIN ROLES \cup {"GUEST", "", "constructor", "__proto__"}

\* the permission names the table lists
ListedPermissions ==
  UNION {{ROLES[r].permissions[i] : i \in DOMAIN ROLES[r].permissions} :
           r \in DOMAIN ROLES}

\* permission names callers pass
PermissionNames == ListedPermissions \cup {"unknown_permission"}

\* user ids callers pass
Ids == {"u1", "u2", "admin_001"}

\* group objects callers pass
Groups == {[creator_id |-> "u1", name |-> "g1"],
           [creator_id |-> "u2", name |-> "g2"],
           [name |-> "g3"]}

\* group actions callers pass
GroupActions ==
  {"view", "edit", "delete", "approve_members", "manage_settings", "invite"}

RbacInit ==
  /\ now = Epoch
  /\ server = [secret |-> "k1", options |-> EmptyObj, custom |-> FALSE]
  /\ token = NoToken
  /\ grant = NoGrant
  /\ out = Idle
  /\ req = NoReq

HasPermission ==
  /\ \E userRole \in RoleNames, requiredPermission \in PermissionNames :
       out' = [op |-> "hasPermission", userRole |-> userRole,
               requiredPermission |-> requiredPermission,
               result |-> hasPermission(userRole, requiredPermission)]
  /\ UNCHANGED <<now, server, token, grant, req>>

HasAnyPermission ==
  /\ \E userRole \in RoleNames, rp \in RequiredPermissions :
       out' = [op |-> "hasAnyPermission", userRole |-> userRole,
               permissions |-> requirePermission(rp, EmptyObj).permissions,
               result |-> hasAnyPermission(
                            userRole, requirePermission(rp, EmptyObj).permissions)]
  /\ UNCHANGED <<now, server, token, grant, req>>

HasAllPermissions ==
  /\ \E userRole \in RoleNames, rp \in RequiredPermissions :
       out' = [op |-> "hasAllPermissions", userRole |-> userRole,
               permissions |-> requirePermission(rp, EmptyObj).permissions,
               result |-> hasAllPermissions(
                            userRole, requirePermission(rp, EmptyObj).permissions)]
  /\ UNCHANGED <<now, server, token, grant, req>>

HasRoleLevel ==
  /\ \E userRole \in RoleNames, requiredRole \in RoleNames :
       out' = [op |-> "hasRoleLevel", userRole |-> userRole,
               requiredRole |-> requiredRole,
               result |-> hasRoleLevel(userRole, requiredRole)]
  /\ UNCHANGED <<now, server, token, grant, req>>

IsValidRole ==
  /\ \E role \in RoleNames :
       out' = [op |-> "isValidRole", role |-> role, result |-> isValidRole(role)]
  /\ UNCHANGED <<now, server, token, grant, req>>

CanAccessResource ==
  /\ \E userId \in Ids, resourceOwnerId \in Ids, userRole \in RoleNames :
       out' = [op |-> "canAccessResource", userId |-> userId,
               resourceOwnerId |-> resourceOwnerId, userRole |-> userRole,
               result |-> canAccessResource(userId, resourceOwnerId, userRole)]
  /\ UNCHANGED <<now, server, token, grant, req>>

CanPerformGroupAction ==
  /\ \E userId \in {<<id>> : id \in Ids} \cup {<<>>}, group \in Groups,
        userRole \in RoleNames, action \in GroupActions :
       out' = [op |-> "canPerformGroupAction", userId |-> userId, group |-> group,
               userRole |-> userRole, action |-> action,
               result |-> canPerformGroupAction(userId, group, userRole, action)]
  /\ UNCHANGED <<now, server, token, grant, req>>

RbacNext ==
  \/ HasPermission
  \/ HasAnyPermission
  \/ HasAllPermissions
  \/ HasRoleLevel
  \/ IsValidRole
  \/ CanAccessResource
  \/ CanPerformGroupAction

RbacSpec == RbacInit /\ [][RbacNext]_vars

(***************************************************************************)
(* Inspection of tokens a client presents                                  *)
(***************************************************************************)
\* three-segment strings no signer of this library produced: a payload
\* without exp, a payload with exp 0, a payload segment that is not JSON
\* under a JWT header
ForeignTokens ==
  { [string |-> TRUE,
     parts |-> <<Segment(JoseHeader), Segment([user_id |-> "u1"]),
                 [raw |-> "sig"]>>],
    [string |-> TRUE,
     parts |-> <<Segment(JoseHeader), Segment([user_id |-> "u1", exp |-> 0]),
                 [raw |-> "sig"]>>],
    [string |-> TRUE,
     parts |-> <<Segment(JoseHeader), [raw |-> "garbage"], [raw |-> "sig"]>>] }

\* tokens a client may present for inspection
InspectTokens ==
  GateTokens
  \cup {Tampered(generateToken(u, "k1", EmptyObj, Epoch).token) :
          u \in {v \in Users : "role" \in DOMAIN v /\ v.role = "USER"}}
  \cup ForeignTokens

\* arguments thresholdMinutes of isTokenExpiringSoon
Thresholds == {<<>>, <<0>>, <<1>>, <<15>>}

InspectInit ==
  /\ now = Epoch
  /\ server \in Servers
  /\ token \in InspectTokens
  /\ grant = NoGrant
  /\ out = Idle
  /\ req = NoReq

\* the token is decoded without verification
DecodeToken ==
  /\ out' = [op |-> "decodeToken", token |-> token, result |-> decodeToken(token)]
  /\ UNCHANGED <<now, server, token, grant, req>>

\* the token is asked whether it expires soon
IsTokenExpiringSoon ==
  /\ \E thresholdMinutes \in Thresholds :
       out' = [op |-> "isTokenExpiringSoon", token |-> token,
               thresholdMinutes |-> thresholdMinutes, at |-> now,
               result |-> isTokenExpiringSoon(token, thresholdMinutes, now)]
  /\ UNCHANGED <<now, server, token, grant, req>>

InspectNext ==
  \/ Tick
  \/ ValidateToken
  \/ DecodeToken
  \/ IsTokenExpiringSoon

InspectSpec == InspectInit /\ [][InspectNext]_vars

(***************************************************************************)
(* Vocabulary of the properties                                            *)
(***************************************************************************)
Payload(tok) == tok.parts[2].json

\* tok carries the signature that `secret` produces over its own content
CorrectlySigned(tok, secret) ==
  /\ secret # ""
  /\ IsSigned(tok)
  /\ tok.parts[3] = HmacSha256(secret, tok.parts[1].json, Payload(tok))

\* the key a signed token was signed under
SigningKey(tok) == tok.parts[3].mac[1]

ExpectedIssuer == Default(server.options, "issuer", DefaultIssuer)
ExpectedAudience == Default(server.options, "audience", DefaultAudience)

\* the held token came out of generateToken, under the deployment's key and
\* with the deployment's issuer and audience options
IssuedByServer ==
  /\ grant.by = "generateToken"
  /\ grant.secret = server.secret
  /\ Get(grant.options, "issuer") = Get(server.options, "issuer")
  /\ Get(grant.options, "audience") = Get(server.options, "audience")

SubjectOf(user) == JsOr(Get(user, "id"), Get(user, "user_id"))

Refreshed == "success" \in DOMAIN out.result /\ out.result.success

(***************************************************************************)
(* Properties of the token codec                                           *)
(***************************************************************************)
\* C1 as stated: validateToken(generateToken(identity, key), key) with the
\* same issuer/audience options, read before expiry, is valid and returns
\* the identity's user_id, email, role (USER when absent) and permissions
\* (empty when absent), for every identity with a subject id and an email
\* and every non-empty key.
C1_RoundTripAsStated ==
  ( /\ out.op = "validateToken"
    /\ IssuedByServer
    /\ server.secret # ""
    /\ token = out.token
    /\ TruthyStr(SubjectOf(grant.user))
    /\ TruthyStr(Get(grant.user, "email"))
    /\ out.t2 < Payload(token).exp )
  => /\ out.result.valid
     /\ <<out.result.user_id>> = SubjectOf(grant.user)
     /\ out.result.email = grant.user.email
     /\ <<out.result.role>> = JsOr(Get(grant.user, "role"), <<"USER">>)
     /\ out.result.permissions = Default(grant.user, "permissions", <<>>)

\* C1 amended: the round trip of C1 holds when, in addition, the issuer and
\* the audience in force are non-empty strings.
C1_RoundTrip ==
  (ExpectedIssuer # "" /\ ExpectedAudience # "") => C1_RoundTripAsStated

\* C1 witness: a token issued for an identity that gives its subject as
\* user_id and no role or permissions validated with the defaults filled in
C1_Witness ==
  /\ out.op = "validateToken"
  /\ IssuedByServer
  /\ "id" \notin DOMAIN grant.user
  /\ out.result.valid
  /\ out.result.user_id = "u2"
  /\ out.result.role = "USER"
  /\ out.result.permissions = <<>>

\* C2: a token issued under key k never validates under a key k' # k; the
\* outcome is invalid with the signature reason and without the expired
\* flag, whether or not the token has expired.
C2_WrongKeyFails ==
  ( /\ out.op = "validateToken"
    /\ IsSigned(out.token)
    /\ SigningKey(out.token) # server.secret )
  => /\ ~out.result.valid
     /\ out.result.error = "Invalid token signature"
     /\ ~IsExpired(out.result)

\* C2 witness: an expired token validated under another key
C2_Witness ==
  /\ out.op = "validateToken"
  /\ IsSigned(out.token)
  /\ SigningKey(out.token) = "k2"
  /\ server.secret = "k1"
  /\ Payload(out.token).exp < out.t1
  /\ out.result.error = "Invalid token signature"

\* C3: a correctly signed token whose expiry is not later than the time of
\* the call fails validateToken with the expired flag set.
C3_ExpiredFlag ==
  ( /\ out.op = "validateToken"
    /\ CorrectlySigned(out.token, server.secret)
    /\ Payload(out.token).exp <= out.t1 )
  => /\ ~out.result.valid
     /\ IsExpired(out.result)

\* C3 witness: a token with a 1-second time-to-live validated 2 seconds
\* after it was issued
C3_Witness ==
  /\ out.op = "validateToken"
  /\ CorrectlySigned(out.token, server.secret)
  /\ Payload(out.token).exp = Payload(out.token).iat + 1
  /\ out.t1 = Payload(out.token).iat + 2
  /\ IsExpired(out.result)

\* C4 as stated: refreshToken on an expired, correctly signed token
\* succeeds and the new token's iat is strictly greater than the old one's.
C4_RefreshLaterAsStated ==
  ( /\ out.op = "refreshToken"
    /\ CorrectlySigned(out.token, server.secret)
    /\ Payload(out.token).exp <= out.t1 )
  => /\ Refreshed
     /\ Payload(out.result.token).iat > Payload(out.token).iat

\* C4 amended: refreshToken on an expired, correctly signed token succeeds
\* and the new token's iat is not less than the old one's; it is strictly
\* greater when the old token's expiry is later than its own iat.
C4_RefreshLater ==
  ( /\ out.op = "refreshToken"
    /\ CorrectlySigned(out.token, server.secret)
    /\ Payload(out.token).exp <= out.t1 )
  => /\ Refreshed
     /\ Payload(out.result.token).iat >= Payload(out.token).iat
     /\ Payload(out.token).exp > Payload(out.token).iat
          => Payload(out.result.token).iat > Payload(out.token).iat

\* C4 witness: an expired token with a positive time-to-live was refreshed
C4_Witness ==
  /\ out.op = "refreshToken"
  /\ CorrectlySigned(out.token, server.secret)
  /\ Payload(out.token).exp > Payload(out.token).iat
  /\ Payload(out.token).exp <= out.t1
  /\ Refreshed
  /\ Payload(out.result.token).iat > Payload(out.token).iat

\* C5: refreshToken on a token signed under another key, or on a malformed
\* token string, returns success = false, carries no token and never
\* reaches generateToken.
C5_RefreshRefusesForeign ==
  ( /\ out.op = "refreshToken"
    /\ \/ IsSigned(out.token) /\ SigningKey(out.token) # server.secret
       \/ out.token \in MalformedTokens \cup {NoToken} )
  => /\ "success" \in DOMAIN out.result
     /\ ~out.result.success
     /\ "token" \notin DOMAIN out.result
     /\ out.result.calls = <<"validateToken">>

\* C5 witness: an expired token signed under another key was refused
C5_Witness ==
  /\ out.op = "refreshToken"
  /\ IsSigned(out.token)
  /\ SigningKey(out.token) = "k2"
  /\ server.secret = "k1"
  /\ Payload(out.token).exp <= out.t1
  /\ ~Refreshed

\* the old token is valid or expired and has no other defect: signed under
\* the deployment's key, every mandatory claim present, issuer and audience
\* the expected ones
ValidOrOnlyExpired(tok) ==
  /\ CorrectlySigned(tok, server.secret)
  /\ FirstMissing(Payload(tok)) = 0
  /\ Payload(tok).iss = ExpectedIssuer
  /\ Payload(tok).aud = ExpectedAudience

\* C6: refreshToken issues a replacement iff the old token is valid or its
\* only defect is that it has expired.
C6_RefreshIffValidOrOnlyExpired ==
  out.op = "refreshToken" =>
    ("token" \in DOMAIN out.result <=> ValidOrOnlyExpired(out.token))

\* the replacement validates when it is presented at once
ReplacementValidates ==
  validateToken(out.result.token, server.secret, server.options,
                out.t3, out.t3).valid

\* C7: a successful refreshToken yields a token with the user_id, email,
\* role and permissions of the old token, and the new token validates under
\* the same key and options (read with options whose issuer and audience
\* are non-empty and whose time-to-live is positive).
C7_RefreshKeepsIdentity ==
  (out.op = "refreshToken" /\ Refreshed) =>
    /\ \A c \in {"user_id", "email", "role", "permissions"} :
         Get(Payload(out.result.token), c) = Get(Payload(out.token), c)
    /\ ( /\ ExpectedIssuer # ""
         /\ ExpectedAudience # ""
         /\ Payload(out.result.token).exp > out.t3 )
       => ReplacementValidates

(***************************************************************************)
(* Properties of the gate stages                                           *)
(***************************************************************************)
AuthHeader == Get(req.headers, "authorization")

\* the outcome of validateToken on the request's bearer token, as the stage
\* that just ran obtained it
StageValidation ==
  validateToken(AuthHeader[1].rest, server.secret, server.options,
                req.args.t1, req.args.t2)

\* the stage that just ran sent exactly this rejection and did not proceed
Rejected(status, code) ==
  /\ req.sent = 1
  /\ req.nexts = 0
  /\ req.res # <<>>
  /\ req.res[1].status = status
  /\ req.res[1].body.code = code

\* req.user is the identity validateToken returned
UserIs(v) ==
  req.user = [id |-> v.user_id, email |-> v.email, role |-> v.role,
              permissions |-> v.permissions]

\* C8 as stated: the required-auth stage rejects with 401 NO_TOKEN without
\* a 'Bearer ' header, with 401 INVALID_TOKEN and the expired flag when
\* validateToken fails, proceeds iff the token validates, then with
\* req.user the token's identity and req.token the raw token; a rejection
\* leaves req.user as it was.
C8_AuthStageAsStated ==
  req.stage = "auth" =>
    /\ ~HasBearer(AuthHeader) => Rejected(401, "NO_TOKEN")
    /\ (HasBearer(AuthHeader) /\ ~StageValidation.valid) =>
         /\ Rejected(401, "INVALID_TOKEN")
         /\ req.res[1].body.expired = IsExpired(StageValidation)
    /\ req.nexts = 1 <=> (HasBearer(AuthHeader) /\ StageValidation.valid)
    /\ req.nexts = 1 =>
         /\ UserIs(StageValidation)
         /\ req.token = <<AuthHeader[1].rest>>
         /\ req.sent = 0
    /\ req.nexts = 0 => req.user = req.before
    /\ req.nexts \in {0, 1}

\* the stage handed this error to onUnauthorized, sent nothing itself and
\* did not proceed
Handed(code) ==
  /\ req.sent = 0
  /\ req.nexts = 0
  /\ req.res = <<>>
  /\ req.handled # <<>>
  /\ DOMAIN req.handled[1] = {"message", "code"}
  /\ req.handled[1].code = code

\* C8 amended: C8 holds as stated when no onUnauthorized handler is
\* configured; when one is configured the stage sends no response itself:
\* it calls the handler with {message, code}, code NO_TOKEN or
\* INVALID_TOKEN in the same cases, without the expired flag; in both
\* configurations the stage proceeds iff the token validates, then with
\* req.user and req.token set, and a rejection leaves req.user as it was.
C8_AuthStage ==
  req.stage = "auth" =>
    /\ ~server.custom => C8_AuthStageAsStated
    /\ server.custom =>
         /\ ~HasBearer(AuthHeader) => Handed("NO_TOKEN")
         /\ (HasBearer(AuthHeader) /\ ~StageValidation.valid) =>
              Handed("INVALID_TOKEN")
    /\ req.nexts = 1 <=> (HasBearer(AuthHeader) /\ StageValidation.valid)
    /\ req.nexts = 1 =>
         /\ UserIs(StageValidation)
         /\ req.token = <<AuthHeader[1].rest>>
         /\ req.sent = 0
         /\ req.handled = <<>>
    /\ req.nexts = 0 => req.user = req.before
    /\ req.nexts \in {0, 1}

\* C8 witness: an expired bearer token was rejected by the default response
\* with the expired flag, after optional-auth had left req.user null
C8_Witness ==
  /\ req.stage = "auth"
  /\ ~server.custom
  /\ HasBearer(AuthHeader)
  /\ Rejected(401, "INVALID_TOKEN")
  /\ req.res[1].body.expired
  /\ req.user = Null

\* C9: the optional-auth stage sends no response and calls next exactly
\* once for every request; afterwards req.user is the token's identity iff
\* a bearer token was present and validated, and null otherwise.
C9_OptionalAuthNeverBlocks ==
  req.stage = "optional" =>
    /\ req.sent = 0
    /\ req.res = <<>>
    /\ req.handled = <<>>
    /\ req.nexts = 1
    /\ IF HasBearer(AuthHeader) /\ StageValidation.valid
       THEN UserIs(StageValidation)
       ELSE req.user = Null

\* C9 witness: a bearer token signed under another key went through with
\* req.user null
C9_Witness ==
  /\ req.stage = "optional"
  /\ HasBearer(AuthHeader)
  /\ IsSigned(AuthHeader[1].rest)
  /\ SigningKey(AuthHeader[1].rest) # server.secret
  /\ req.nexts = 1
  /\ req.user = Null

\* the role table grants permission perm to role
TableGrants(role, perm) ==
  \/ role = "ADMIN"
  \/ /\ role \in {"MIT", "IT", "USER"}
     /\ \E i \in DOMAIN ROLES[role].permissions : ROLES[role].permissions[i] = perm

\* C10: the permission gate rejects with 401 NO_AUTH when the request has
\* no identity; with an identity it proceeds iff the role has at least one
\* of the required permissions (ANY, the default) or every one of them
\* (ALL, requireAll), and otherwise rejects with 403 FORBIDDEN.
C10_PermissionGate ==
  req.stage = "permission" =>
    LET required == {req.args.permissions[i] : i \in DOMAIN req.args.permissions}
        granted == IF req.args.requireAll
                   THEN \A perm \in required : TableGrants(req.user.role, perm)
                   ELSE \E perm \in required : TableGrants(req.user.role, perm)
    IN IF req.before \in {Undefined, Null}
       THEN Rejected(401, "NO_AUTH")
       ELSE /\ req.nexts = 1 <=> granted
            /\ granted => req.sent = 0
            /\ ~granted => Rejected(403, "FORBIDDEN")

\* C10 witness: a USER holding one of two required permissions was
\* rejected in ALL mode
C10_Witness ==
  /\ req.stage = "permission"
  /\ req.args.requireAll
  /\ req.user \notin {Undefined, Null}
  /\ req.user.role = "USER"
  /\ req.args.permissions = <<"view_own_profile", "system_config">>
  /\ Rejected(403, "FORBIDDEN")

(***************************************************************************)
(* Properties of the role gate, the ownership gate and the constructors    *)
(***************************************************************************)
TableRoles == {"ADMIN", "MIT", "IT", "USER"}

\* the level of a role of the table
Level == [r \in TableRoles |->
            CASE r = "ADMIN" -> 100 [] r = "IT" -> 75 [] r = "MIT" -> 50
              [] r = "USER" -> 10]

\* role is a role of the table at or above the role minimum
AtLeast(role, minimum) ==
  /\ role \in TableRoles
  /\ minimum \in TableRoles
  /\ Level[role] >= Level[minimum]

\* the stage that just ran called next once and, where next returned, sent
\* nothing and raised nothing
Proceeded ==
  /\ req.nexts = 1
  /\ req.next = "returns" => (req.sent = 0 /\ req.error = <<>>)

\* C11: the role gate rejects with 401 NO_AUTH when the request has no
\* identity; with an identity it proceeds iff the role is in the table and
\* its level is at least the level of the minimum role, and otherwise
\* rejects with 403 INSUFFICIENT_ROLE.  A gate with minimum MIT rejects
\* USER and accepts MIT and ADMIN; a role not in the table is rejected.
C11_RoleGate ==
  req.stage = "role" =>
    IF req.before \in {Undefined, Null}
    THEN Rejected(401, "NO_AUTH")
    ELSE /\ AtLeast(req.user.role, req.args.minimumRole) => Proceeded
         /\ ~AtLeast(req.user.role, req.args.minimumRole)
              => Rejected(403, "INSUFFICIENT_ROLE")
         /\ req.user.role \notin TableRoles => Rejected(403, "INSUFFICIENT_ROLE")
         /\ req.args.minimumRole = "MIT" =>
              /\ req.user.role = "USER" => Rejected(403, "INSUFFICIENT_ROLE")
              /\ req.user.role \in {"MIT", "ADMIN"} => Proceeded

\* C11 witness: a gate with minimum MIT rejected an authenticated USER
C11_Witness ==
  /\ req.stage = "role"
  /\ req.args.minimumRole = "MIT"
  /\ req.before \notin {Undefined, Null}
  /\ req.user.role = "USER"
  /\ Rejected(403, "INSUFFICIENT_ROLE")

\* C12: the ownership gate rejects with 401 NO_AUTH when the request has no
\* identity and proceeds for role ADMIN; otherwise, once the accessor's
\* value is there, it proceeds iff the owner id equals the subject id,
\* rejects with 403 NOT_OWNER on mismatch, and rejects with 500
\* OWNERSHIP_CHECK_FAILED when the accessor threw or its promise rejected.
C12_OwnershipGate ==
  req.stage = "ownership" =>
    IF req.before \in {Undefined, Null}
    THEN Rejected(401, "NO_AUTH")
    ELSE IF req.user.role = "ADMIN"
    THEN Proceeded
    ELSE IF req.pending # <<>>
    THEN req.nexts = 0 /\ req.sent = 0
    ELSE IF req.args.getResourceOwnerId.outcome \in {"throws", "rejects"}
    THEN Rejected(500, "OWNERSHIP_CHECK_FAILED")
    ELSE IF req.args.getResourceOwnerId.value = <<req.user.id>>
    THEN Proceeded
    ELSE Rejected(403, "NOT_OWNER")

\* C12 witness: an accessor resolving to "u2" made the gate reject the
\* request of subject "u1" with NOT_OWNER
C12_Witness ==
  /\ req.stage = "ownership"
  /\ req.before \notin {Undefined, Null}
  /\ req.user.id = "u1"
  /\ req.user.role # "ADMIN"
  /\ req.args.getResourceOwnerId.function
  /\ req.args.getResourceOwnerId.value = <<"u2">>
  /\ req.pending = <<>>
  /\ Rejected(403, "NOT_OWNER")

\* C13: requireRole throws at construction iff the name is not one of the
\* four table roles, createAuthMiddleware and optionalAuth throw at
\* construction iff the config has no signing key; a constructor that threw
\* returned no stage, so no request passes a stage built from such an
\* argument, and a construction error comes before any request.
C13_ConfigErrorsAtConstruction ==
  /\ \A m \in MinimumRoles : requireRole(m).threw <=> m \notin TableRoles
  /\ createAuthMiddleware(ConfigOf(server)).threw <=> server.secret = ""
  /\ optionalAuth(ConfigOf(server)).threw <=> server.secret = ""
  /\ req.stage \in {"auth", "optional"} => server.secret # ""
  /\ req.stage = "role" => req.args.minimumRole \in TableRoles
  /\ out # Idle => /\ out.result.threw
                   /\ req = NoReq
                   /\ out.op = "requireRole" => out.arg \notin TableRoles
                   /\ out.op \in {"createAuthMiddleware", "optionalAuth"}
                        => server.secret = ""

\* C13 witness: requireRole threw at construction for a name that is not a
\* table role
C13_Witness ==
  /\ out # Idle
  /\ out.op = "requireRole"
  /\ out.arg = "INVALID_ROLE"
  /\ out.result.threw
  /\ req = NoReq

(***************************************************************************)
(* Properties of the role table queries                                    *)
(***************************************************************************)
\* C14: hasPermission is true for ADMIN and every permission string, true
\* for MIT, IT, USER iff the permission is in the role's list, and false
\* for a role name that is not in the table.
C14_HasPermission ==
  out.op = "hasPermission" =>
    /\ ~out.result.threw
    /\ out.result.value = TableGrants(out.userRole, out.requiredPermission)

\* C15: hasRoleLevel(a, b) is true iff a and b are table roles and
\* level(a) >= level(b), with levels ADMIN 100, IT 75, MIT 50, USER 10; it
\* is reflexive, transitive and total on the four roles, whose levels are
\* distinct; it is false when either argument is not a table role.
C15_HasRoleLevel ==
  /\ out.op = "hasRoleLevel" =>
       out.result = AtLeast(out.userRole, out.requiredRole)
  /\ \A a \in TableRoles : hasRoleLevel(a, a)
  /\ \A a \in TableRoles, b \in TableRoles, c \in TableRoles :
       hasRoleLevel(a, b) /\ hasRoleLevel(b, c) => hasRoleLevel(a, c)
  /\ \A a \in TableRoles, b \in TableRoles :
       /\ hasRoleLevel(a, b) \/ hasRoleLevel(b, a)
       /\ a # b => ~(hasRoleLevel(a, b) /\ hasRoleLevel(b, a))
  /\ hasRoleLevel("MIT", "USER")
  /\ hasRoleLevel("ADMIN", "USER")
  /\ ~hasRoleLevel("USER", "ADMIN")
  /\ \A a \in RoleNames, b \in RoleNames :
       a \notin TableRoles \/ b \notin TableRoles => ~hasRoleLevel(a, b)

\* C15 witness: hasRoleLevel answered false for an inherited member name
\* against USER
C15_Witness ==
  /\ out.op = "hasRoleLevel"
  /\ out.userRole = "constructor"
  /\ out.requiredRole = "USER"
  /\ out.result = FALSE

\* C16: canAccessResource is true iff the role is ADMIN or the requester id
\* equals the owner id.
C16_CanAccessResource ==
  out.op = "canAccessResource" =>
    out.result = (out.userRole = "ADMIN" \/ out.userId = out.resourceOwnerId)

\* C16 witness: a USER asked for the resource of another user and got false
C16_Witness ==
  /\ out.op = "canAccessResource"
  /\ out.userRole = "USER"
  /\ out.userId # out.resourceOwnerId
  /\ out.result = FALSE

\* C17: for every action other than 'view', canPerformGroupAction is true
\* iff the role is ADMIN, or the role is MIT, the requester id equals
\* group.creator_id and the action is one of edit, delete, approve_members,
\* manage_settings.
C17_GroupActionNonView ==
  (out.op = "canPerformGroupAction" /\ out.action # "view") =>
    out.result =
      \/ out.userRole = "ADMIN"
      \/ /\ out.userRole = "MIT"
         /\ Get(out.group, "creator_id") = out.userId
         /\ out.action \in {"edit", "delete", "approve_members", "manage_settings"}

\* C17 witness: an MIT who did not create the group asked to edit it and
\* got false
C17_Witness ==
  /\ out.op = "canPerformGroupAction"
  /\ out.action = "edit"
  /\ out.userRole = "MIT"
  /\ out.userId = <<"u2">>
  /\ out.group.name = "g1"
  /\ out.result = FALSE

\* C18: canPerformGroupAction with action 'view' is true for every
\* requester, every role and every group.
C18_GroupActionView ==
  (out.op = "canPerformGroupAction" /\ out.action = "view") => out.result = TRUE

(***************************************************************************)
(* Properties of the outcomes of validateToken                             *)
(***************************************************************************)
MandatoryClaims == {"user_id", "email", "role", "iss", "aud", "exp", "iat"}

\* the mandatory claims that are absent from the payload or empty in it
Lacking(payload) ==
  {c \in MandatoryClaims :
     \/ c \notin DOMAIN payload
     \/ c \in {"exp", "iat"} /\ payload[c] = 0
     \/ c \notin {"exp", "iat"} /\ payload[c] = ""}

\* every valid outcome carries all mandatory claims, an expiry later than
\* the time the validator read, and the expected issuer and audience
ValidCarriesAllClaims ==
  out.result.valid =>
    /\ Lacking(out.result.decoded) = {}
    /\ out.result.decoded.exp > out.t2
    /\ out.result.decoded.iss = ExpectedIssuer
    /\ out.result.decoded.aud = ExpectedAudience

\* the outcome is invalid with a reason naming a claim the token lacks
NamesMissingClaim ==
  /\ ~out.result.valid
  /\ \E c \in Lacking(Payload(out.token)) :
       out.result.error = "Missing required claim: " \o c

PassesLibraryChecks ==
  /\ Payload(out.token).exp > out.t1
  /\ ExpectedIssuer \in {"", Payload(out.token).iss}
  /\ ExpectedAudience \in {"", Payload(out.token).aud}

SoundButForIssuerOrAudience ==
  /\ out.op = "validateToken"
  /\ CorrectlySigned(out.token, server.secret)
  /\ Lacking(Payload(out.token)) = {}
  /\ Payload(out.token).exp > out.t2

\* C20: a correctly signed, unexpired token with every mandatory claim
\* fails validateToken with 'Invalid issuer' when its issuer differs from
\* the expected one, and with 'Invalid audience' when its audience differs
\* from the expected one; neither reason is the bad-signature reason.
C20_IssuerAudienceReasons ==
  SoundButForIssuerOrAudience =>
    /\ Payload(out.token).iss # ExpectedIssuer =>
         /\ ~out.result.valid
         /\ out.result.error = "Invalid issuer"
    /\ (Payload(out.token).iss = ExpectedIssuer
        /\ Payload(out.token).aud # ExpectedAudience) =>
         /\ ~out.result.valid
         /\ out.result.error = "Invalid audience"
    /\ "Invalid issuer" # "Invalid token signature"
    /\ "Invalid audience" # "Invalid token signature"

(***************************************************************************)
(* Properties of the inspection of tokens                                  *)
(***************************************************************************)
\* the token decodes: three segments, header and payload JSON
Decodable(tok) ==
  /\ tok.string
  /\ Len(tok.parts) = 3
  /\ "json" \in DOMAIN tok.parts[1]
  /\ "json" \in DOMAIN tok.parts[2]

\* C21: isTokenExpiringSoon(token, m) is true when the token cannot be
\* decoded or has no expiry claim, and otherwise true iff
\* expires_at - now <= m * 60, whatever the signature; a token of the
\* default 8-hour lifetime is not expiring soon for m = 15 and a token of a
\* 1-second lifetime is expiring soon for m = 1 right after issuance.
C21_ExpiringSoon ==
  (out.op = "isTokenExpiringSoon" /\ out.thresholdMinutes # <<>>) =>
    /\ ~Decodable(out.token) => out.result = TRUE
    /\ (Decodable(out.token) /\ "exp" \notin DOMAIN Payload(out.token))
         => out.result = TRUE
    /\ (Decodable(out.token) /\ "exp" \in DOMAIN Payload(out.token)) =>
         out.result =
           (Payload(out.token).exp - out.at <= out.thresholdMinutes[1] * 60)
    /\ (Decodable(out.token) /\ "exp" \in DOMAIN Payload(out.token)
        /\ "iat" \in DOMAIN Payload(out.token)
        /\ out.at = Payload(out.token).iat) =>
         /\ (Payload(out.token).exp - Payload(out.token).iat = 28800
             /\ out.thresholdMinutes = <<15>>) => out.result = FALSE
         /\ (Payload(out.token).exp - Payload(out.token).iat = 1
             /\ out.thresholdMinutes = <<1>>) => out.result = TRUE

\* C21 witness: a tampered token of the 8-hour lifetime was found not to
\* expire within 15 minutes
C21_Witness ==
  /\ out.op = "isTokenExpiringSoon"
  /\ out.thresholdMinutes = <<15>>
  /\ Decodable(out.token)
  /\ "exp" \in DOMAIN Payload(out.token)
  /\ Payload(out.token).exp - out.at > 900
  /\ ~CorrectlySigned(out.token, SigningKey(out.token))
  /\ out.result = FALSE

\* the token is not a string, is empty, or does not split into exactly
\* three segments
Unsplittable(tok) ==
  \/ ~tok.string
  \/ tok.parts = <<[raw |-> ""]>>
  \/ Len(tok.parts) # 3

\* the outcome has the shape of an invalid outcome: valid = false and a
\* reason, at most the expired flag besides
InvalidOutcome(result) ==
  /\ {"valid", "error"} \subseteq DOMAIN result
  /\ DOMAIN result \subseteq {"valid", "error", "expired"}
  /\ result.valid = FALSE

\* the outcome has the shape of a valid outcome
ValidOutcome(result) ==
  /\ DOMAIN result =
       {"valid", "decoded", "user_id", "email", "role", "permissions"}
  /\ result.valid = TRUE

AwaitsOwner(r) ==
  /\ r.stage = "ownership"
  /\ ~NoUser(r)
  /\ r.user.role # "ADMIN"
  /\ r.args.getResourceOwnerId.function
  /\ r.args.getResourceOwnerId.outcome # "throws"

\* the stage that just ran on r called next or sent a response
Issued(r) == r.nexts > 0 \/ r.sent > 0

\* while the ownership stage is suspended the accessor was called once and
\* nothing was issued; for ADMIN or no identity the accessor was not called
OwnershipSuspended ==
  req.stage = "ownership" =>
    /\ req.pending # <<>> =>
         (AwaitsOwner(req) /\ ~Issued(req) /\ req.res = <<>> /\ req.calls = 1)
    /\ (NoUser(req) \/ req.user.role = "ADMIN") =>
         (req.calls = 0 /\ req.pending = <<>>)

\* a step that issues the ownership stage's decision for an awaited owner id
\* is the step that resumes the suspended stage, and decides by what the
\* promise settled with
OwnershipDecidedOnSettle ==
  (AwaitsOwner(req') /\ Issued(req')) =>
    /\ req.stage = "ownership"
    /\ req.pending = <<req'.args.getResourceOwnerId>>
    /\ req'.pending = <<>>
    /\ req'.calls = 1
    /\ IF req.pending[1].outcome = "rejects"
       THEN Rejected(500, "OWNERSHIP_CHECK_FAILED")'
       ELSE IF Get(req.user, "id") = req.pending[1].value
       THEN req'.nexts = 1
       ELSE Rejected(403, "NOT_OWNER")'

\* C24: for an authenticated request that is not ADMIN and an asynchronous
\* accessor, the ownership gate issues neither next nor a response before
\* the accessor's promise settled, and decides by the settled value; for
\* ADMIN and for a request with no identity the accessor is never called.
C24_OwnershipOrdering ==
  /\ []OwnershipSuspended
  /\ [][OwnershipDecidedOnSettle]_vars

\* C24 witness: the stage was suspended on the accessor's promise, resumed
\* when it was fulfilled with the requester's id, and proceeded
C24_Witness ==
  /\ AwaitsOwner(req)
  /\ req.args.getResourceOwnerId.outcome = "resolves"
  /\ req.pending = <<>>
  /\ req.calls = 1
  /\ Proceeded

\* C25: every invocation of a gate stage ends in exactly one outcome:
\* next called once and no response sent, or one terminal rejection (a
\* response, or the deployment's onUnauthorized handler) and next not
\* called; the ownership gate sends 500 OWNERSHIP_CHECK_FAILED only when the
\* accessor raised or its promise rejected, never after it called next.
C25_OneOutcomePerStage ==
  (/\ req.stage \in {"auth", "optional", "permission", "role", "ownership"}
   /\ req.pending = <<>>) =>
    /\ \/ req.nexts = 1 /\ req.sent = 0 /\ req.handled = <<>>
       \/ req.nexts = 0 /\ req.sent = 1 /\ req.handled = <<>>
       \/ req.nexts = 0 /\ req.sent = 0 /\ req.handled # <<>>
    /\ (req.res # <<>> /\ req.res[1].body.code = "OWNERSHIP_CHECK_FAILED") =>
         /\ req.nexts = 0
         /\ req.args.getResourceOwnerId.function
         /\ req.args.getResourceOwnerId.outcome \in {"throws", "rejects"}

\* the ownership gate called next and then answered 500
SentAfterNext ==
  /\ req.stage = "ownership"
  /\ req.nexts = 1
  /\ req.sent = 1
  /\ req.res[1].body.code = "OWNERSHIP_CHECK_FAILED"

(***************************************************************************)
(* Properties of the ADMIN bypass over lists of permissions                *)
(***************************************************************************)
\* lists of permission names a caller may ask about: the gate's lists, and
\* one that names no permission of any role
PermissionLists ==
  {requirePermission(rp, EmptyObj).permissions : rp \in RequiredPermissions}
    \cup {<<"no_such_permission">>}

\* C27: the permission gate never rejects a request whose role is ADMIN with
\* FORBIDDEN, in ANY and in ALL mode; hasAnyPermission(ADMIN, ps) and
\* hasAllPermissions(ADMIN, ps) are true for every list ps, the empty list
\* and lists of unknown names included.
C27_AdminSatisfiesEveryCheck ==
  /\ (/\ req.stage = "permission"
      /\ ~NoUser(req)
      /\ req.user.role = "ADMIN") =>
       (Proceeded /\ ~Rejected(403, "FORBIDDEN"))
  /\ \A ps \in PermissionLists :
       /\ hasAnyPermission("ADMIN", ps) = Returns(TRUE)
       /\ hasAllPermissions("ADMIN", ps) = Returns(TRUE)

\* an ADMIN request was rejected by a gate that requires one of no
\* permissions
AdminForbidden ==
  /\ req.stage = "permission"
  /\ ~NoUser(req)
  /\ req.user.role = "ADMIN"
  /\ req.args.permissions = <<>>
  /\ ~req.args.requireAll
  /\ Rejected(403, "FORBIDDEN")

(***************************************************************************)
(* Properties of expiry, refresh and the lifetime of tokens                *)
(***************************************************************************)
\* C28: every 'Token expired' outcome of validateToken carries expired =
\* true, also when the clock reaches the expiry between the library's check
\* and validateToken's own; so refreshToken never refuses a token that is
\* correctly signed and whose only defect is that it expired.
C28_ExpiredOutcomeCarriesFlag ==
  /\ (/\ out.op = "validateToken"
      /\ ~out.result.valid
      /\ out.result.error = "Token expired") => IsExpired(out.result)
  /\ (out.op = "refreshToken" /\ ValidOrOnlyExpired(out.token)) => Refreshed

\* validateToken read the clock before and after the token's expiry and
\* reported 'Token expired' without the flag
ExpiredBetweenReads ==
  /\ out.op = "validateToken"
  /\ out.result = [valid |-> FALSE, error |-> "Token expired"]
  /\ out.t1 < Payload(out.token).exp
  /\ Payload(out.token).exp <= out.t2

\* refreshToken refused a sound token that expired between the two reads
RefusedBetweenReads ==
  /\ out.op = "refreshToken"
  /\ ValidOrOnlyExpired(out.token)
  /\ out.t1 < Payload(out.token).exp
  /\ Payload(out.token).exp <= out.t2
  /\ ~Refreshed

(***************************************************************************)
(* Properties of the permission gate's inputs                              *)
(***************************************************************************)
\* what a stage decided on request r: the calls of next, the responses, the
\* response itself and the error it raised
Decision(r) ==
  [nexts |-> r.nexts, sent |-> r.sent, res |-> r.res, error |-> r.error]

\* the permissions claims a token may carry
PermissionsClaims ==
  {<<>>, <<"user_management">>,
   <<"view_own_profile", "edit_own_profile", "system_config">>}

\* the permission gate proceeded only for a role the table grants the
\* required permissions to: each of them in ALL mode, one of them otherwise
ProceedsByTable ==
  (req.stage = "permission" /\ req.nexts > 0) =>
    /\ ~NoUser(req)
    /\ IF req.args.requireAll
       THEN \A i \in DOMAIN req.args.permissions :
              TableGrants(req.user.role, req.args.permissions[i])
       ELSE \E i \in DOMAIN req.args.permissions :
              TableGrants(req.user.role, req.args.permissions[i])

\* a step of the permission gate decides as it would have decided had the
\* identity carried any other permissions claim
SameForEveryPermissionsClaim ==
  (/\ req'.stage = "permission"
   /\ req.stage # "none"
   /\ req'.hops = req.hops + 1
   /\ ~NoUser(req)) =>
    \A ps \in PermissionsClaims :
      Decision(permissionMiddleware(
                 req'.args,
                 With([req EXCEPT !.user.permissions = ps], req'.next)))
        = Decision(req')

\* C29: the permission gate's decision depends only on the identity's role
\* and the role table: two requests with the same role and different
\* permissions claims get the same decision, and a permission listed in the
\* token never makes the gate proceed when the role's table entry lacks it.
C29_DecisionByRoleOnly ==
  /\ []ProceedsByTable
  /\ [][SameForEveryPermissionsClaim]_vars

\* C29 witness: a USER whose token lists user_management was rejected by a
\* gate requiring user_management
C29_Witness ==
  /\ req.stage = "permission"
  /\ ~NoUser(req)
  /\ req.user.role = "USER"
  /\ Includes(req.user.permissions, "user_management")
  /\ req.args.permissions = <<"user_management">>
  /\ Rejected(403, "FORBIDDEN")

\* the old token of the refresh just made validates now under the
\* deployment's key and options
OldStillValidates ==
  validateToken(out.token, server.secret, server.options, now, now).valid

\* C30: refreshToken succeeds for every correctly signed token that has all
\* mandatory claims and the expected issuer and audience, at every time
\* after issuance, however long ago the token expired; it leaves the old
\* token alone: after a refresh the old token validates until its own
\* expiry, so the old and the new token are valid at the same time.
C30_RefreshAtAnyAge ==
  out.op = "refreshToken" =>
    /\ ValidOrOnlyExpired(out.token) => Refreshed
    /\ (Refreshed /\ ValidOrOnlyExpired(out.token)) =>
         (OldStillValidates <=> Payload(out.token).exp > now)

\* C30 without the instant of expiry: the same, for refreshes that do not
\* read the clock on both sides of the old token's expiry
RefreshAwayFromExpiry ==
  (/\ out.op = "refreshToken"
   /\ ValidOrOnlyExpired(out.token)
   /\ ~(out.t1 < Payload(out.token).exp /\ Payload(out.token).exp <= out.t2)) =>
    /\ Refreshed
    /\ OldStillValidates <=> Payload(out.token).exp > now

\* an old token and its replacement both validate
BothValid ==
  /\ out.op = "refreshToken"
  /\ Refreshed
  /\ OldStillValidates
  /\ out.result.token # out.token
  /\ validateToken(out.result.token, server.secret, server.options, now, now).valid

\* a token expired two seconds ago was refreshed
RefreshedLongExpired ==
  /\ out.op = "refreshToken"
  /\ Refreshed
  /\ Payload(out.token).exp + 2 <= out.t1

(***************************************************************************)
(* Properties of requests served at the same time                          *)
(***************************************************************************)
RECURSIVE Replay(_, _)
\* request r served alone with the calls of log, one after the other
Replay(log, r) ==
  IF log = <<>> THEN r ELSE Replay(Tail(log), StageCall(Head(log), r))

\* request i has the identity of its own token, or none
OwnIdentity(i) ==
  ~NoUser(req[i]) =>
    /\ token[i].string
    /\ req[i].token = <<token[i]>>
    /\ Get(req[i].user, "id") = Get(Payload(token[i]), "user_id")
    /\ req[i].user.role = Payload(token[i]).role

\* the ownership stage let request i through only for its own identity
OwnDecision(i) ==
  (req[i].stage = "ownership" /\ req[i].nexts > 0) =>
    \/ Payload(token[i]).role = "ADMIN"
    \/ <<Payload(token[i]).user_id>> = req[i].args.getResourceOwnerId.value

\* C26: requests are independent under every interleaving, the suspension
\* of the ownership gate included: each request carries the identity of its
\* own token, is decided by it, and is at every moment in the state it would
\* be in had it been served alone with the same calls.
C26_RequestsIndependent ==
  \A i \in InFlight :
    /\ OwnIdentity(i)
    /\ OwnDecision(i)
    /\ req[i] = Replay(grant[i], Incoming(BearerOf(token[i])))

\* C26 witness: two requests with different identities both went through
\* the ownership gate's await; one was let through, the other rejected
C26_Witness ==
  /\ req[1].stage = "ownership"
  /\ req[2].stage = "ownership"
  /\ req[1].calls = 1
  /\ req[2].calls = 1
  /\ req[1].pending = <<>>
  /\ req[2].pending = <<>>
  /\ req[1].user # req[2].user
  /\ req[1].nexts = 1
  /\ req[1].sent = 0
  /\ req[2].nexts = 0
  /\ req[2].res # <<>>
  /\ req[2].res[1].body.code = "NOT_OWNER"

====
